---- MODULE Spec2Model ----
(***************************************************************************)
(* A model of package kbncontent (src/kbncontent.go, lines 145-511): the   *)
(* classification of Kibana saved objects and by-value dashboard panels.   *)
(*                                                                         *)
(* A JSON value, as encoding/json hands it to the package, is a tagged     *)
(* record: Null (Go's nil interface), Num, Str(s) (a Go string, here a     *)
(* TLA+ string), List(l) ([]interface{}) and Obj(f) (map[string]interface{}*)
(* or objx.Map: a function from keys to values).  A Go string that holds   *)
(* JSON text holds the real text: Marshal writes it and Unmarshal reads it *)
(* back.                                                                   *)
(***************************************************************************)
EXTENDS Integers, Sequences, FiniteSets, TLC

VARIABLES
    input,   \* the document or dashboard the caller passes in (shared, mutable)
    phase,   \* position of the caller: "start", then "described" | "failed" after
             \* a Describe... call, "answered" | "panicked" after another entry point
    descs,   \* the descriptors the last Describe... call returned
    last,    \* the last call made and what it returned
    inflators \* the runs of deserializeSubPaths that share input concurrently

vars == <<input, phase, descs, last, inflators>>

(***************************************************************************)
(* JSON values                                                             *)
(***************************************************************************)
Null == [k |-> "null"]
Num == [k |-> "num"]
Str(s) == [k |-> "str", s |-> s]
List(l) == [k |-> "list", l |-> l]
Obj(f) == [k |-> "obj", f |-> f]

\* Marks a key that a document under construction does not have.
Absent == [k |-> "absent"]

EmptyMap == [x \in {} |-> Null]

\* The object with the given <<key, value>> pairs, the Absent ones left out.
RECURSIVE PairsToMap(_)
PairsToMap(pairs) ==
    IF pairs = <<>> THEN EmptyMap
    ELSE LET p == Head(pairs)
             rest == PairsToMap(Tail(pairs))
         IN IF p[2] = Absent THEN rest ELSE (p[1] :> p[2]) @@ rest

O(pairs) == Obj(PairsToMap(pairs))

\* As O, but Absent when no pair is left: a parent that exists only for its children.
OA(pairs) ==
    IF \A i \in 1..Len(pairs) : pairs[i][2] = Absent THEN Absent ELSE O(pairs)

(***************************************************************************)
(* JSON text.  Marshal writes a value as encoding/json does, with the keys *)
(* of an object in the fixed order KeyOrder.                               *)
(***************************************************************************)
KeyOrder ==
    << "type", "title", "attributes", "visState", "uiStateJSON",
       "kibanaSavedObjectMeta", "searchSourceJSON", "state", "query",
       "filter", "filters", "params", "embeddableConfig", "savedVis",
       "data", "searchSource", "panelsJSON", "panelRefName", "references",
       "id", "name", "meta", "vis" >>

\* The one string of the model that Marshal writes and that holds characters JSON
\* escapes (a visState kept as text inside a panel), with its escaped form.
LazyVisState == "{\"type\":\"metrics\",\"params\":{\"type\":\"markdown\"}}"

Escapes ==
    { <<LazyVisState,
        "{\\\"type\\\":\\\"metrics\\\",\\\"params\\\":{\\\"type\\\":\\\"markdown\\\"}}">> }

\* A string as it stands between the quotes of a JSON string.
Escaped(s) ==
    IF \E e \in Escapes : e[1] = s THEN (CHOOSE e \in Escapes : e[1] = s)[2] ELSE s

RECURSIVE Marshal(_)
RECURSIVE MarshalItems(_)
RECURSIVE MarshalFields(_, _, _)

MarshalItems(l) ==
    IF l = <<>> THEN ""
    ELSE Marshal(Head(l)) \o (IF Len(l) > 1 THEN "," ELSE "") \o MarshalItems(Tail(l))

\* Field i of KeyOrder if f has it, after a comma if f has an earlier field.
MarshalField(f, i) ==
    IF KeyOrder[i] \notin DOMAIN f THEN ""
    ELSE (IF \E j \in 1..(i - 1) : KeyOrder[j] \in DOMAIN f THEN "," ELSE "")
         \o "\"" \o KeyOrder[i] \o "\":" \o Marshal(f[KeyOrder[i]])

\* The fields of f at positions lo..hi of KeyOrder.
MarshalFields(f, lo, hi) ==
    IF lo = hi THEN MarshalField(f, lo)
    ELSE MarshalFields(f, lo, (lo + hi) \div 2)
         \o MarshalFields(f, (lo + hi) \div 2 + 1, hi)

Marshal(v) ==
    CASE v.k = "null" -> "null"
      [] v.k = "num" -> "5"
      [] v.k = "str" -> "\"" \o Escaped(v.s) \o "\""
      [] v.k = "list" -> "[" \o MarshalItems(v.l) \o "]"
      [] v.k = "obj" -> "{" \o MarshalFields(v.f, 1, Len(KeyOrder)) \o "}"

(***************************************************************************)
(* github.com/stretchr/objx, as far as the package uses it.  A path is the *)
(* sequence of the keys of a dotted selector.                              *)
(***************************************************************************)
RECURSIVE Dotted(_)
Dotted(path) ==
    IF Len(path) = 1 THEN path[1] ELSE path[1] \o "." \o Dotted(Tail(path))

\* objx.Map.Get: the value at the path, nil (Null) when a key is missing or a
\* value on the way is no map.
RECURSIVE Get(_, _)
Get(v, path) ==
    LET next == IF v.k = "obj" /\ Head(path) \in DOMAIN v.f THEN v.f[Head(path)] ELSE Null
    IN IF Len(path) = 1 THEN next ELSE Get(next, Tail(path))

\* objx.Map.Set: writes x at the path in place; a missing or non-map value on the
\* way is replaced by a new map; under a non-map nothing is written.
RECURSIVE Set(_, _, _)
Set(v, path, x) ==
    IF v.k # "obj" THEN v
    ELSE IF Len(path) = 1 THEN Obj((Head(path) :> x) @@ v.f)
    ELSE LET old == IF Head(path) \in DOMAIN v.f THEN v.f[Head(path)] ELSE Null
             child == IF old.k = "obj" THEN old ELSE Obj(EmptyMap)
         IN Obj((Head(path) :> Set(child, Tail(path), x)) @@ v.f)

\* objx.Value.IsStr and Str.
IsStr(v) == v.k = "str"

StrOf(v) == IF v.k = "str" THEN v.s ELSE ""

\* objx.Value.IsObjxMapSlice: a list whose elements are all maps.
IsObjxMapSlice(v) ==
    v.k = "list" /\ \A i \in 1..Len(v.l) : v.l[i].k = "obj"

\* objx.Map.Has: the path holds a value that is not nil.
Has(v, path) == Get(v, path) # Null

(***************************************************************************)
(* The JSON texts of the model: the sub-documents Kibana stores as strings *)
(* and the panel lists of the dashboards.                                  *)
(***************************************************************************)
MaxPanels == 3

SeqsUpTo(S, n) == UNION {[1..m -> S] : m \in 0..n}

\* attributes.visState: the legacy place of the visualization type and of the
\* TSVB sub-type.
VisStates ==
    { O(<< <<"type", t>>, <<"params", OA(<< <<"type", p>> >>)>> >>) :
        t \in {Absent, Str("metrics"), Str("vega")},
        p \in {Absent, Str("markdown"), Str("gauge")} }

\* A visState that the saved objects of the model hold as text only.
TextVisState ==
    O(<< <<"type", Str("metrics")>>,
         <<"params", O(<< <<"type", Str("timeseries")>> >>)>> >>)

OneFilter == List(<< Obj([meta |-> Obj(EmptyMap)]) >>)

\* attributes.kibanaSavedObjectMeta.searchSourceJSON: a query and a filter list.
SearchSources ==
    { O(<< <<"query", OA(<< <<"query", q>> >>)>>, <<"filter", f>> >>) :
        q \in {Absent, Str(""), Str("a")},
        f \in {Absent, List(<<>>), OneFilter, List(<<Num>>)} }

\* A by-value visualization whose attributes.visState is still a string.
LazyPanel ==
    Obj([type |-> Str("visualization"),
         attributes |-> Obj([visState |-> Str(LazyVisState)]),
         embeddableConfig |-> Obj([savedVis |-> Obj([type |-> Str("table")])])])

\* The panels that dashboards are built from in every order.
CorePanels ==
    { \* by reference: no type
      Obj([panelRefName |-> Str("panel_0")]),
      \* the TSVB gauge of testdata/dashboard.json, with a filter
      Obj([type |-> Str("visualization"),
           embeddableConfig |-> Obj([savedVis |->
               Obj([type |-> Str("metrics"), title |-> Str("TSVB gauge"),
                    params |-> Obj([type |-> Str("gauge")]),
                    data |-> Obj([searchSource |-> Obj([filter |-> OneFilter])])])])]),
      \* a Lens panel with a query
      Obj([type |-> Str("lens"),
           embeddableConfig |-> Obj([attributes |->
               Obj([state |-> Obj([query |-> Obj([query |-> Str("a")])])])])]),
      \* a visualization without savedVis
      Obj([type |-> Str("visualization"), embeddableConfig |-> Obj(EmptyMap)]),
      LazyPanel }

TableVis == Obj([type |-> Str("table")])

\* The panels that appear alone or beside one core panel.
EdgePanels ==
    { Obj([type |-> Str("visualization"),
           embeddableConfig |-> Obj([savedVis |-> Obj([type |-> Str("markdown")])])]),
      Obj([type |-> Str("visualization"),
           embeddableConfig |-> Obj([savedVis |->
               Obj([type |-> Str("input_control_vis"),
                    title |-> Str("Legacy input control vis")])])]),
      Obj([type |-> Str("visualization"), embeddableConfig |-> Obj([savedVis |-> Null])]),
      Obj([type |-> Str("visualization"),
           embeddableConfig |-> Obj([attributes |-> Obj(EmptyMap)])]),
      Obj([type |-> Str("visualization"), embeddableConfig |-> Str("x")]),
      Obj([type |-> Str("lens"), embeddableConfig |-> Obj([savedVis |-> TableVis])]),
      Obj([type |-> Str("lens"), embeddableConfig |-> Obj([attributes |-> Null])]),
      Obj([type |-> Str("map"), embeddableConfig |-> Obj([attributes |-> Obj(EmptyMap)])]),
      Obj([type |-> Str("map")]),
      Obj([type |-> Str("search"),
           embeddableConfig |-> Obj([attributes |-> Obj(EmptyMap), savedVis |-> TableVis])]),
      Obj([type |-> Num, embeddableConfig |-> Obj([savedVis |-> TableVis])]),
      Obj([type |-> Null, embeddableConfig |-> Obj([attributes |-> Obj(EmptyMap)])]) }

Panels == CorePanels \cup EdgePanels

\* Lists of panel objects.
PanelLists ==
    SeqsUpTo(CorePanels, MaxPanels)
        \cup {<<p>> : p \in EdgePanels}
        \cup {<<p, q>> : p \in EdgePanels, q \in CorePanels}
        \cup {<<q, p>> : p \in EdgePanels, q \in CorePanels}

\* Lists that hold something that is no panel object.
BadLists ==
    {<<Null>>, <<Num>>, <<Str("x")>>}
        \cup {<<p, Null>> : p \in CorePanels}
        \cup {<<p, Num>> : p \in CorePanels}

\* JSON values that are no object.
Scalars == {Null, Num, Str("{}"), List(<<>>)}

\* Every value whose JSON text occurs in the model.
JSONValues ==
    VisStates \cup SearchSources \cup Scalars
        \cup {O(<<>>), Obj([vis |-> Obj(EmptyMap)]), TextVisState}
        \cup {List(l) : l \in PanelLists \cup BadLists}

JSONTable == {<<Marshal(v), v>> : v \in JSONValues}

\* Stands for the text of the error encoding/json returns, which the package
\* wraps with %w.
jsonError == "json: cannot unmarshal"

\* fmt's %T of a value that encoding/json produced.
GoType(v) ==
    CASE v.k = "null" -> "<nil>"
      [] v.k = "num" -> "float64"
      [] v.k = "str" -> "string"
      [] v.k = "list" -> "[]interface {}"
      [] v.k = "obj" -> "map[string]interface {}"

\* encoding/json.Unmarshal into an interface{}: ok is false for a text that is not
\* valid JSON (every text of the model that is valid JSON is in JSONTable).
Decoded(hits) ==
    IF hits = {} THEN [ok |-> FALSE, v |-> Null]
    ELSE [ok |-> TRUE, v |-> (CHOOSE e \in hits : TRUE)[2]]

Unmarshal(text) == Decoded({e \in JSONTable : e[1] = text})

\* Unmarshal into a Map that takes whatever JSON value the text holds.
IntoMapAnyValue(u) ==
    IF ~u.ok THEN [ok |-> FALSE, v |-> Null] ELSE [ok |-> TRUE, v |-> u.v]

\* json.Unmarshal into an objx.Map: a JSON object gives its map, JSON null gives a
\* nil Map (read as a map without keys), anything else fails.
IntoMap(u) ==
    IF ~u.ok THEN [ok |-> FALSE, v |-> Null]
    ELSE IF u.v.k = "obj" THEN [ok |-> TRUE, v |-> u.v]
    ELSE IF u.v = Null THEN [ok |-> TRUE, v |-> Obj(EmptyMap)]
    ELSE [ok |-> FALSE, v |-> Null]

\* objx.FromJSON.
FromJSON(text) == IntoMap(Unmarshal(text))

\* json.Unmarshal into a []objx.Map: the text must be an array (or null) whose
\* elements are objects (or null, a nil Map).
IntoMapSlice(u) ==
    IF ~u.ok THEN [ok |-> FALSE, l |-> <<>>]
    ELSE IF u.v = Null THEN [ok |-> TRUE, l |-> <<>>]
    ELSE IF u.v.k = "list" /\ \A i \in 1..Len(u.v.l) : u.v.l[i].k \in {"obj", "null"}
    THEN [ok |-> TRUE,
          l |-> [i \in 1..Len(u.v.l) |->
                    IF u.v.l[i] = Null THEN Obj(EmptyMap) ELSE u.v.l[i]]]
    ELSE [ok |-> FALSE, l |-> <<>>]

\* objx.FromJSONSlice.
FromJSONSlice(text) == IntoMapSlice(Unmarshal(text))

(***************************************************************************)
(* Inflation of the sub-documents stored as JSON strings.                  *)
(***************************************************************************)
jsonPaths ==
    << <<"attributes", "uiStateJSON">>,
       <<"attributes", "visState">>,
       <<"attributes", "kibanaSavedObjectMeta", "searchSourceJSON">> >>

\* The loop of deserializeSubPaths from field i on: doc is the document as the
\* loop has made it so far, err is "" or the error returned.
RECURSIVE deserializeFrom(_, _)
RECURSIVE setParsed(_, _, _)

\* The end of one round with the parsed value dropped: the field stays a string.
setParsedDropped(doc, i, parsed) ==
    IF ~parsed.ok
    THEN [doc |-> doc,
          err |-> "failed to decode embedded json in \"" \o Dotted(jsonPaths[i])
                      \o "\": " \o jsonError]
    ELSE deserializeFrom(doc, i + 1)

\* The end of one round of the loop, after objx.FromJSON has returned parsed.
setParsed(doc, i, parsed) ==
    IF ~parsed.ok
    THEN [doc |-> doc,
          err |-> "failed to decode embedded json in \"" \o Dotted(jsonPaths[i])
                      \o "\": " \o jsonError]
    ELSE deserializeFrom(Set(doc, jsonPaths[i], parsed.v), i + 1)

deserializeFrom(doc, i) ==
    IF i > Len(jsonPaths) THEN [doc |-> doc, err |-> ""]
    ELSE IF ~IsStr(Get(doc, jsonPaths[i])) THEN deserializeFrom(doc, i + 1)
    ELSE setParsed(doc, i, FromJSON(StrOf(Get(doc, jsonPaths[i]))))

deserializeSubPaths(doc) == deserializeFrom(doc, 1)

(***************************************************************************)
(* VisualizationDescriptor: [Doc, SavedObjectType, Link] and its methods.  *)
(***************************************************************************)
\* The path resolver stopping at the first path that holds any value: a value
\* that is no string ends the search with "".
RECURSIVE findFirstPresent(_, _)
findFirstPresent(v, paths) ==
    IF paths = <<>> THEN ""
    ELSE IF Get(v.Doc, Head(paths)) # Null THEN StrOf(Get(v.Doc, Head(paths)))
    ELSE findFirstPresent(v, Tail(paths))

\* The path resolver passing over empty strings: the first non-empty string wins.
RECURSIVE findFirstNonEmpty(_, _)
findFirstNonEmpty(v, paths) ==
    IF paths = <<>> THEN ""
    ELSE IF IsStr(Get(v.Doc, Head(paths))) /\ StrOf(Get(v.Doc, Head(paths))) # ""
    THEN StrOf(Get(v.Doc, Head(paths)))
    ELSE findFirstNonEmpty(v, Tail(paths))

RECURSIVE findDocumentPathsAsString(_, _)
findDocumentPathsAsString(v, paths) ==
    IF paths = <<>> THEN ""
    ELSE IF IsStr(Get(v.Doc, Head(paths))) THEN StrOf(Get(v.Doc, Head(paths)))
    ELSE findDocumentPathsAsString(v, Tail(paths))

typePaths ==
    << <<"attributes", "type">>,
       <<"attributes", "visState", "type">>,
       <<"embeddableConfig", "savedVis", "type">> >>

Type(v) ==
    IF v.SavedObjectType # "visualization" THEN ""
    ELSE findDocumentPathsAsString(v, typePaths)

\* Editor as it was before it returned an error: "Unknown" and no error.
EditorUnknown(v) ==
    CASE v.SavedObjectType = "lens" -> [ret |-> "Lens", err |-> ""]
      [] v.SavedObjectType = "map" -> [ret |-> "Maps", err |-> ""]
      [] v.SavedObjectType = "search" -> [ret |-> "Discover", err |-> ""]
      [] v.SavedObjectType = "visualization" ->
            (CASE Type(v) = "metrics" -> [ret |-> "TSVB", err |-> ""]
               [] Type(v) = "vega" -> [ret |-> "Vega", err |-> ""]
               [] Type(v) = "timelion" -> [ret |-> "Timelion", err |-> ""]
               [] OTHER -> [ret |-> "Aggs-based", err |-> ""])
      [] OTHER -> [ret |-> "Unknown", err |-> ""]

\* Editor returns (name, error): err is "" when there is no error.
Editor(v) ==
    CASE v.SavedObjectType = "lens" -> [ret |-> "Lens", err |-> ""]
      [] v.SavedObjectType = "map" -> [ret |-> "Maps", err |-> ""]
      [] v.SavedObjectType = "search" -> [ret |-> "Discover", err |-> ""]
      [] v.SavedObjectType = "visualization" ->
            (CASE Type(v) = "metrics" -> [ret |-> "TSVB", err |-> ""]
               [] Type(v) = "vega" -> [ret |-> "Vega", err |-> ""]
               [] Type(v) = "timelion" -> [ret |-> "Timelion", err |-> ""]
               [] OTHER -> [ret |-> "Aggs-based", err |-> ""])
      [] OTHER -> [ret |-> "", err |-> "Unknown editor type"]

isTSVB(v) == Type(v) = "metrics"

tsvbTypePaths ==
    << <<"attributes", "visState", "params", "type">>,
       <<"embeddableConfig", "savedVis", "params", "type">> >>

\* TSVBType without the check that the visualization is a TSVB.
TSVBTypeOfAnyType(v) == findDocumentPathsAsString(v, tsvbTypePaths)

TSVBType(v) ==
    IF ~isTSVB(v) THEN ""
    ELSE findDocumentPathsAsString(v, tsvbTypePaths)

\* IsLegacy with "input_control_vis" missing from the exemption list.
IsLegacyShortList(v) ==
    IF v.SavedObjectType # "visualization" THEN FALSE
    ELSE IF isTSVB(v) THEN TSVBType(v) # "markdown"
    ELSE IF Type(v) \in {"markdown", "vega"} THEN FALSE
    ELSE TRUE

\* IsLegacy without the TSVB branch: the type alone decides.
IsLegacyByType(v) ==
    IF v.SavedObjectType # "visualization" THEN FALSE
    ELSE IF Type(v) \in {"markdown", "vega", "input_control_vis"} THEN FALSE
    ELSE TRUE

\* IsLegacy with "markdown" left out of the exempt types.
IsLegacyMarkdown(v) ==
    IF v.SavedObjectType # "visualization" THEN FALSE
    ELSE IF isTSVB(v) THEN TSVBType(v) # "markdown"
    ELSE IF Type(v) \in {"vega", "input_control_vis"} THEN FALSE
    ELSE TRUE

IsLegacy(v) ==
    IF v.SavedObjectType # "visualization" THEN FALSE
    ELSE IF isTSVB(v) THEN TSVBType(v) # "markdown"
    ELSE IF Type(v) \in {"markdown", "vega", "input_control_vis"} THEN FALSE
    ELSE TRUE

SemanticType(v) == IF isTSVB(v) THEN TSVBType(v) ELSE Type(v)

\* CanUseFilter deciding by the semantic type, so that TSVB markdown counts too.
CanUseFilterSemantic(v) ==
    CASE v.SavedObjectType = "search" -> FALSE
      [] v.SavedObjectType = "visualization" /\ SemanticType(v) = "markdown" -> FALSE
      [] OTHER -> TRUE

CanUseFilter(v) ==
    CASE v.SavedObjectType = "search" -> FALSE
      [] v.SavedObjectType = "visualization" /\ Type(v) = "markdown" -> FALSE
      [] OTHER -> TRUE

titlePaths ==
    << <<"attributes", "title">>,
       <<"title">>,
       <<"embeddableConfig", "savedVis", "title">> >>

\* Title without the check of the saved-object type.
TitleOfAnyType(v) == findDocumentPathsAsString(v, titlePaths)

Title(v) ==
    IF v.SavedObjectType # "visualization" THEN ""
    ELSE findDocumentPathsAsString(v, titlePaths)

queryPaths ==
    << <<"attributes", "kibanaSavedObjectMeta", "searchSourceJSON", "query", "query">>,
       <<"attributes", "state", "query", "query">>,
       <<"embeddableConfig", "attributes", "state", "query", "query">>,
       <<"embeddableConfig", "savedVis", "data", "searchSource", "query", "query">> >>

filterPaths ==
    << <<"attributes", "state", "filters">>,
       <<"embeddableConfig", "attributes", "state", "filters">>,
       <<"embeddableConfig", "savedVis", "data", "searchSource", "filter">>,
       <<"attributes", "kibanaSavedObjectMeta", "searchSourceJSON", "filter">> >>

\* The first loop of HasFilters as a precedence chain: the first query path that
\* holds a string decides.
RECURSIVE anyQueryFirst(_, _)
anyQueryFirst(m, paths) ==
    IF paths = <<>> THEN FALSE
    ELSE LET query == Get(m, Head(paths))
         IN IF IsStr(query) THEN StrOf(query) # ""
            ELSE anyQueryFirst(m, Tail(paths))

\* The first loop of HasFilters: some query path holds a non-empty string.
RECURSIVE anyQuery(_, _)
anyQuery(m, paths) ==
    IF paths = <<>> THEN FALSE
    ELSE LET query == Get(m, Head(paths))
         IN IF IsStr(query) /\ StrOf(query) # "" THEN TRUE
            ELSE anyQuery(m, Tail(paths))

\* The second loop of HasFilters: some filter path holds a non-empty slice of maps.
RECURSIVE anyFilter(_, _)
anyFilter(m, paths) ==
    IF paths = <<>> THEN FALSE
    ELSE LET filters == Get(m, Head(paths))
         IN IF IsObjxMapSlice(filters) /\ Len(filters.l) > 0 THEN TRUE
            ELSE anyFilter(m, Tail(paths))

\* HasFilters after its call of deserializeSubPaths, which returned d.
hasFiltersIn(d) ==
    IF d.err # "" THEN [ret |-> FALSE, err |-> d.err, doc |-> d.doc]
    ELSE IF anyQuery(d.doc, queryPaths) THEN [ret |-> TRUE, err |-> "", doc |-> d.doc]
    ELSE IF anyFilter(d.doc, filterPaths) THEN [ret |-> TRUE, err |-> "", doc |-> d.doc]
    ELSE [ret |-> FALSE, err |-> "", doc |-> d.doc]

\* HasFilters returns (bool, error) and inflates v.Doc in place: doc is v.Doc as
\* the call leaves it.
HasFilters(v) == hasFiltersIn(deserializeSubPaths(v.Doc))

(***************************************************************************)
(* The entry points.                                                       *)
(***************************************************************************)

\* VisualizationDescriptor{}: what the entry points return beside an error.
\* A descriptor's Doc is a Go map, a reference: at tells which map it is.  -1 is
\* the document the caller passed, n > 0 is panel n of the list the caller passed
\* in attributes.panelsJSON, 0 is a map of the descriptor's own.
NoDescriptor == [Doc |-> Null, SavedObjectType |-> "", Link |-> "", at |-> 0]

\* DescribeVisualizationSavedObject without the check of the type: a document
\* without a string type gets a descriptor of saved-object type "".
describeAnyType(d) ==
    IF d.err # ""
    THEN [desc |-> NoDescriptor, doc |-> d.doc,
          err |-> "failed to deserialize embedded JSON objects: " \o d.err]
    ELSE [desc |-> [Doc |-> d.doc, SavedObjectType |-> StrOf(Get(d.doc, <<"type">>)),
                    Link |-> "by_reference", at |-> -1],
          doc |-> d.doc, err |-> ""]

\* DescribeVisualizationSavedObject looking at the type before it looks at the
\* error of the inflation.
describeTypeFirst(d) ==
    IF ~IsStr(Get(d.doc, <<"type">>))
    THEN [desc |-> NoDescriptor, doc |-> d.doc,
          err |-> "'type' in visualization is not present or is not a string"]
    ELSE IF d.err # ""
    THEN [desc |-> NoDescriptor, doc |-> d.doc,
          err |-> "failed to deserialize embedded JSON objects: " \o d.err]
    ELSE [desc |-> [Doc |-> d.doc, SavedObjectType |-> StrOf(Get(d.doc, <<"type">>)),
                    Link |-> "by_reference", at |-> -1],
          doc |-> d.doc, err |-> ""]

\* DescribeVisualizationSavedObject after its call of deserializeSubPaths, which
\* returned d; doc is the caller's document as the call leaves it.  (The source
\* writes type between backquotes.)
describeInflated(d) ==
    IF d.err # ""
    THEN [desc |-> NoDescriptor, doc |-> d.doc,
          err |-> "failed to deserialize embedded JSON objects: " \o d.err]
    ELSE IF ~IsStr(Get(d.doc, <<"type">>))
    THEN [desc |-> NoDescriptor, doc |-> d.doc,
          err |-> "'type' in visualization is not present or is not a string"]
    ELSE [desc |-> [Doc |-> d.doc, SavedObjectType |-> StrOf(Get(d.doc, <<"type">>)),
                    Link |-> "by_reference", at |-> -1],
          doc |-> d.doc, err |-> ""]

DescribeVisualizationSavedObject(doc) == describeInflated(deserializeSubPaths(doc))

\* The filter of the panel loop with the || of the map case outside the && (as the
\* condition read before it was parenthesised): every map panel is kept.
keepPanelAnyMap(panel) ==
    LET panelType == StrOf(Get(panel, <<"type">>))
    IN \/ Has(panel, <<"embeddableConfig", "savedVis">>) /\ panelType = "visualization"
       \/ Has(panel, <<"embeddableConfig", "attributes">>) /\ panelType = "lens"
       \/ panelType = "map"

\* The filter of the panel loop: filterOut is false.
keepPanel(panel) ==
    LET panelType == StrOf(Get(panel, <<"type">>))
    IN \/ Has(panel, <<"embeddableConfig", "savedVis">>) /\ panelType = "visualization"
       \/ Has(panel, <<"embeddableConfig", "attributes">>)
            /\ (panelType = "lens" \/ panelType = "map")

\* The panel loop putting each descriptor in front of the ones found so far.
RECURSIVE collectPanelsReversed(_, _, _)
collectPanelsReversed(panels, i, shared) ==
    IF i > Len(panels) THEN <<>>
    ELSE IF ~IsStr(Get(panels[i], <<"type">>))
    THEN collectPanelsReversed(panels, i + 1, shared)
    ELSE IF ~keepPanel(panels[i]) THEN collectPanelsReversed(panels, i + 1, shared)
    ELSE collectPanelsReversed(panels, i + 1, shared)
         \o << [Doc |-> panels[i],
                 SavedObjectType |-> StrOf(Get(panels[i], <<"type">>)),
                 Link |-> "by_value",
                 at |-> IF shared THEN i ELSE 0] >>

\* The panel loop taking the link from the content: a panel that has attributes,
\* as a saved object has, counts as by reference.
RECURSIVE collectPanelsLinkByContent(_, _, _)
collectPanelsLinkByContent(panels, i, shared) ==
    IF i > Len(panels) THEN <<>>
    ELSE IF ~IsStr(Get(panels[i], <<"type">>))
    THEN collectPanelsLinkByContent(panels, i + 1, shared)
    ELSE IF ~keepPanel(panels[i]) THEN collectPanelsLinkByContent(panels, i + 1, shared)
    ELSE << [Doc |-> panels[i],
             SavedObjectType |-> StrOf(Get(panels[i], <<"type">>)),
             Link |-> IF Has(panels[i], <<"attributes">>)
                      THEN "by_reference" ELSE "by_value",
             at |-> IF shared THEN i ELSE 0] >>
         \o collectPanelsLinkByContent(panels, i + 1, shared)

\* The panel loop from panel i on; shared says the panels are the caller's maps.
RECURSIVE collectPanels(_, _, _)
collectPanels(panels, i, shared) ==
    IF i > Len(panels) THEN <<>>
    ELSE IF ~IsStr(Get(panels[i], <<"type">>)) THEN collectPanels(panels, i + 1, shared)
    ELSE IF ~keepPanel(panels[i]) THEN collectPanels(panels, i + 1, shared)
    ELSE << [Doc |-> panels[i],
             SavedObjectType |-> StrOf(Get(panels[i], <<"type">>)),
             Link |-> "by_value",
             at |-> IF shared THEN i ELSE 0] >>
         \o collectPanels(panels, i + 1, shared)

panelsPath == <<"attributes", "panelsJSON">>

\* The string branch after objx.FromJSONSlice has returned result.
describeParsed(result) ==
    IF ~result.ok
    THEN [descs |-> <<>>, err |-> "failed to parse panels JSON: " \o jsonError]
    ELSE [descs |-> collectPanels(result.l, 1, FALSE), err |-> ""]

\* DescribeByValueDashboardPanels after panelsValue was read from a map.  The last
\* error formats err, which is nil there, with %T.
describePanels(panelsValue) ==
    IF IsStr(panelsValue) THEN describeParsed(FromJSONSlice(StrOf(panelsValue)))
    ELSE IF IsObjxMapSlice(panelsValue)
    THEN [descs |-> collectPanels(panelsValue.l, 1, TRUE), err |-> ""]
    ELSE [descs |-> <<>>,
          err |-> "panelsJSON is of unexpected type " \o GoType(Null)
                      \o ". Expected string or map[string]interface{}"]

DescribeByValueDashboardPanels(dashboard) ==
    IF dashboard.k # "obj"
    THEN [descs |-> <<>>, err |-> "dashboard of unexpected type " \o GoType(dashboard)]
    ELSE describePanels(Get(dashboard, panelsPath))

\* GetDashboardTitle.
GetDashboardTitle(dashboard) ==
    IF dashboard.k # "obj"
    THEN [title |-> "",
          err |-> "dashboard of unexpected type: " \o GoType(dashboard)
                      \o ". Expected map[string]interface{}"]
    ELSE [title |-> StrOf(Get(dashboard, <<"attributes", "title">>)), err |-> ""]

(***************************************************************************)
(* The references of a dashboard.  Reference is [ID, Type, Name], decoded  *)
(* by github.com/mitchellh/mapstructure from the keys id, type and name    *)
(* (it matches keys without regard to case; the documents of the model     *)
(* write them in lower case).                                              *)
(***************************************************************************)
NoReference == [ID |-> "", Type |-> "", Name |-> ""]

\* mapstructure into a string field: a missing key or nil leaves the field "", a
\* string sets it, anything else is an error.
decodeField(v, key) ==
    IF key \notin DOMAIN v.f \/ v.f[key] = Null THEN [ok |-> TRUE, s |-> ""]
    ELSE IF v.f[key].k = "str" THEN [ok |-> TRUE, s |-> v.f[key].s]
    ELSE [ok |-> FALSE, s |-> ""]

\* mapstructure.Decode(v, &ref): nil decodes to the zero Reference, a map field by
\* field, anything else is an error.
Decode(v) ==
    IF v = Null THEN [ok |-> TRUE, ref |-> NoReference]
    ELSE IF v.k # "obj" THEN [ok |-> FALSE, ref |-> NoReference]
    ELSE [ok |-> decodeField(v, "id").ok /\ decodeField(v, "type").ok
                    /\ decodeField(v, "name").ok,
          ref |-> [ID |-> decodeField(v, "id").s,
                   Type |-> decodeField(v, "type").s,
                   Name |-> decodeField(v, "name").s]]

\* Stands for the text of the error mapstructure returns.
decodeError == "mapstructure: cannot decode"

\* The loop of toReferenceSlice leaving out an element that does not decode.
RECURSIVE decodeSkipping(_, _, _)
decodeSkipping(vals, i, refs) ==
    IF i > Len(vals) THEN [refs |-> refs, err |-> ""]
    ELSE IF ~Decode(vals[i]).ok THEN decodeSkipping(vals, i + 1, refs)
    ELSE decodeSkipping(vals, i + 1, Append(refs, Decode(vals[i]).ref))

\* The loop of toReferenceSlice from element i on, refs decoded so far.
RECURSIVE decodeFrom(_, _, _)
decodeFrom(vals, i, refs) ==
    IF i > Len(vals) THEN [refs |-> refs, err |-> ""]
    ELSE IF ~Decode(vals[i]).ok
    THEN [refs |-> <<>>,
          err |-> "conversion errror to reference element: " \o decodeError]
    ELSE decodeFrom(vals, i + 1, Append(refs, Decode(vals[i]).ref))

toReferenceSlice(val) ==
    IF val.k # "list" THEN [refs |-> <<>>, err |-> "conversion error to array"]
    ELSE decodeFrom(val.l, 1, <<>>)

\* The pieces the names of the model are made of beside "panel_".
Affixes == {"", "0", "1", "x:", "0:x"}

\* strings.HasPrefix.
HasPrefix(s, prefix) == \E b \in Affixes : s = prefix \o b

\* strings.Contains: s is some a, substr, some b in a row.
Contains(s, substr) == \E a \in Affixes, b \in Affixes : s = a \o substr \o b

\* The loop of GetByReferencePanelIDs from reference i on.
RECURSIVE panelIdsFrom(_, _)
panelIdsFrom(refs, i) ==
    IF i > Len(refs) THEN <<>>
    ELSE IF Contains(refs[i].Name, "panel_")
    THEN <<refs[i].ID>> \o panelIdsFrom(refs, i + 1)
    ELSE panelIdsFrom(refs, i + 1)

\* GetByReferencePanelIDs after toReferenceSlice has returned r.
panelIdsOf(r) ==
    IF r.err # "" THEN [ids |-> <<>>, err |-> r.err, panic |-> FALSE]
    ELSE [ids |-> panelIdsFrom(r.refs, 1), err |-> "", panic |-> FALSE]

\* GetByReferencePanelIDs returns ([]string, error); the type assertion on the
\* dashboard has no ok form, so it panics when the dashboard is no map.
GetByReferencePanelIDs(dashboard) ==
    IF dashboard.k # "obj" THEN [ids |-> <<>>, err |-> "", panic |-> TRUE]
    ELSE panelIdsOf(toReferenceSlice(Get(dashboard, <<"references">>)))

(***************************************************************************)
(* The documents callers pass in.  A saved object is built from a choice   *)
(* for each field the package reads; Absent leaves the field out.          *)
(***************************************************************************)
StateOf(q, f) ==
    OA(<< <<"state", OA(<< <<"query", OA(<< <<"query", q>> >>)>>, <<"filters", f>> >>)>> >>)

SavedObject(c) ==
    O(<< <<"type", c.soType>>,
         <<"title", c.title>>,
         <<"attributes",
           OA(<< <<"type", c.aType>>,
                 <<"title", c.aTitle>>,
                 <<"visState", c.visState>>,
                 <<"uiStateJSON", c.ui>>,
                 <<"kibanaSavedObjectMeta", OA(<< <<"searchSourceJSON", c.ss>> >>)>>,
                 <<"state", OA(<< <<"query", OA(<< <<"query", c.stQ>> >>)>>,
                                  <<"filters", c.stF>> >>)>> >>)>>,
         <<"embeddableConfig",
           OA(<< <<"attributes", StateOf(c.ecQ, c.ecF)>>,
                 <<"savedVis",
                   OA(<< <<"type", c.svType>>,
                         <<"title", c.svTitle>>,
                         <<"params", OA(<< <<"type", c.svPType>> >>)>>,
                         <<"data", OA(<< <<"searchSource",
                              OA(<< <<"query", OA(<< <<"query", c.svQ>> >>)>>,
                                    <<"filter", c.svF>> >>)>> >>)>> >>)>> >>)>> >>)

Bare ==
    [soType |-> Str("visualization"), title |-> Absent, aType |-> Absent,
     aTitle |-> Absent, visState |-> Absent, ui |-> Absent, ss |-> Absent,
     stQ |-> Absent, stF |-> Absent, ecQ |-> Absent, ecF |-> Absent,
     svType |-> Absent, svTitle |-> Absent, svPType |-> Absent,
     svQ |-> Absent, svF |-> Absent]

SoTypes == {"visualization", "lens", "map", "search", "dashboard"}

VisTypes == {"metrics", "markdown", "vega", "input_control_vis", "timelion", "table", ""}

AsText(S) == {Str(Marshal(v)) : v \in S}

\* Classification: the saved-object type, the type and the TSVB sub-type.
ClassifyDocs ==
    { SavedObject([Bare EXCEPT !.soType = t, !.aType = a, !.visState = vs]) :
        t \in {Str(x) : x \in SoTypes} \cup {Absent, Num},
        a \in {Str(x) : x \in VisTypes} \cup {Absent, Num},
        vs \in {Absent} \cup
              {O(<< <<"params", O(<< <<"type", Str(x)>> >>)>> >>) :
                   x \in {"markdown", "gauge", ""}} }

\* Titles at each of the three places.
TitleDocs ==
    { SavedObject([Bare EXCEPT !.soType = Str(t), !.aTitle = a, !.title = b,
                               !.svTitle = c]) :
        t \in SoTypes,
        a \in {Absent, Str("A"), Num},
        b \in {Absent, Str("B")},
        c \in {Absent, Str("C")} }

\* The fallback places of the type and of the TSVB sub-type.
FallbackDocs ==
    { SavedObject([Bare EXCEPT !.aType = a, !.visState = vs, !.svType = st,
                               !.svPType = sp]) :
        a \in {Absent, Str(""), Num, Str("table")},
        vs \in {Absent} \cup VisStates \cup AsText(VisStates \cup {TextVisState}),
        st \in {Absent, Str("metrics"), Str("markdown")},
        sp \in {Absent, Str("markdown"), Str("timeseries")} }

\* What one of the three inflated fields may hold: nothing, a JSON object as text
\* or already parsed, a broken text, or the text of a JSON value that is no object.
Inflatable(obj) ==
    {Absent, obj, Str(Marshal(obj)), Str("{"), Num} \cup AsText(Scalars)

\* A uiStateJSON that the documents of the model hold as text only.
UiState == Obj([vis |-> Obj(EmptyMap)])

InflateDocs ==
    { SavedObject([Bare EXCEPT !.soType = t, !.ui = u, !.visState = vs, !.ss = s]) :
        t \in {Str("visualization"), Absent},
        u \in Inflatable(O(<<>>)) \cup AsText({UiState}),
        vs \in Inflatable(O(<< <<"type", Str("metrics")>>,
                               <<"params", O(<< <<"type", Str("gauge")>> >>)>> >>)),
        s \in Inflatable(O(<< <<"query", O(<< <<"query", Str("a")>> >>)>>,
                              <<"filter", OneFilter>> >>)) }

Queries == {Absent, Str(""), Str("a")}

Filters == {Absent, List(<<>>), OneFilter}

\* Queries and filters at the eight places HasFilters reads.
FilterDocs ==
    { SavedObject([Bare EXCEPT !.ss = s, !.stQ = q, !.stF = f]) :
        s \in {Absent} \cup SearchSources \cup AsText(SearchSources),
        q \in Queries \cup {Num},
        f \in Filters \cup {List(<<Num>>), Str("f")} }
    \cup
    { SavedObject([Bare EXCEPT !.stQ = q1, !.ecQ = q2, !.svQ = q3,
                               !.stF = f1, !.ecF = f2, !.svF = f3]) :
        q1 \in Queries, q2 \in Queries, q3 \in Queries,
        f1 \in Filters, f2 \in Filters, f3 \in Filters }

SavedObjects ==
    ClassifyDocs \cup TitleDocs \cup FallbackDocs \cup InflateDocs \cup FilterDocs

\* Dashboards: the panel list as JSON text and as a parsed list.
Dashboard(panels) ==
    O(<< <<"type", Str("dashboard")>>,
         <<"attributes", O(<< <<"title", Str("D")>>, <<"panelsJSON", panels>> >>)>> >>)

Dashboards ==
    {Dashboard(List(l)) : l \in PanelLists \cup BadLists}
        \cup {Dashboard(Str(Marshal(List(l)))) : l \in PanelLists \cup BadLists}
        \cup {Dashboard(p) : p \in {Absent, Null, Num, Str(""), Str("{"), Str("{}"),
                                    Str("null"), Str("5"), O(<<>>)}}

MaxRefs == 3

Ref(id, name) ==
    Obj([id |-> Str(id), type |-> Str("visualization"), name |-> Str(name)])

\* References that decode: two panels, one of them twice under different names,
\* and two that are no panels.
CoreRefs ==
    { Ref("a", "panel_0"), Ref("b", "x:panel_1"), Ref("a", "panel_1"),
      Ref("c", "tag_0"), Ref("d", "panel") }

\* Elements at the edge of what decodes.
EdgeRefs ==
    { Null, Num, Str("panel_0"), List(<<>>), Obj(EmptyMap),
      Obj([name |-> Str("panel_0")]),
      Obj([id |-> Null, name |-> Str("panel_0")]),
      Obj([id |-> Num, name |-> Str("panel_0")]),
      Obj([id |-> Str("e"), name |-> Num]),
      Obj([id |-> Str("e"), type |-> Obj(EmptyMap), name |-> Str("tag_0")]),
      Obj([id |-> Str("e"), name |-> Str("panel_0:x"), meta |-> Num]) }

RefLists ==
    SeqsUpTo(CoreRefs, MaxRefs)
        \cup {<<e>> : e \in EdgeRefs}
        \cup {<<r, e>> : r \in CoreRefs, e \in EdgeRefs}
        \cup {<<e, r>> : r \in CoreRefs, e \in EdgeRefs}

\* Dashboards with references and without panels.
RefDashboards ==
    { O(<< <<"type", Str("dashboard")>>,
           <<"attributes", O(<< <<"title", Str("D")>> >>)>>,
           <<"references", r>> >>) :
        r \in {List(l) : l \in RefLists}
                \cup {Absent, Null, Num, Str("[]"), Obj(EmptyMap)} }

\* What an entry point may be handed that is no map.
NotMaps == {Null, Num, Str("x"), List(<<>>)}

Inputs == SavedObjects \cup Dashboards \cup RefDashboards \cup NotMaps

(***************************************************************************)
(* The caller: one call of an entry point and, after a Describe... call,   *)
(* any calls of the descriptors' methods.                                  *)
(***************************************************************************)
NoCall == [op |-> "none", i |-> 0, ret |-> 0, err |-> ""]

\* No run of deserializeSubPaths is concurrent with another.
NoInflators == [orig |-> Null, fatal |-> FALSE, calls |-> <<>>]

Init ==
    /\ input \in Inputs
    /\ phase = "start"
    /\ descs = <<>>
    /\ last = NoCall
    /\ inflators = NoInflators

CallDescribeVisualizationSavedObject ==
    /\ phase = "start"
    /\ input.k = "obj"
    /\ \E r \in {DescribeVisualizationSavedObject(input)} :
          /\ input' = r.doc
          /\ descs' = IF r.err = "" THEN <<r.desc>> ELSE <<>>
          /\ phase' = IF r.err = "" THEN "described" ELSE "failed"
          /\ last' = [op |-> "DescribeVisualizationSavedObject", i |-> 0,
                      ret |-> r.desc, err |-> r.err]
    /\ UNCHANGED inflators

CallDescribeByValueDashboardPanels ==
    /\ phase = "start"
    /\ \E r \in {DescribeByValueDashboardPanels(input)} :
          /\ descs' = r.descs
          /\ phase' = IF r.err = "" THEN "described" ELSE "failed"
          /\ last' = [op |-> "DescribeByValueDashboardPanels", i |-> 0,
                      ret |-> Len(r.descs), err |-> r.err]
    /\ UNCHANGED <<input, inflators>>

\* A method that only reads the descriptor.
Reads(op, i, ret, err) ==
    /\ phase = "described"
    /\ last' = [op |-> op, i |-> i, ret |-> ret, err |-> err]
    /\ UNCHANGED <<input, phase, descs, inflators>>

CallType(i) == Reads("Type", i, Type(descs[i]), "")

CallTSVBType(i) == Reads("TSVBType", i, TSVBType(descs[i]), "")

CallSemanticType(i) == Reads("SemanticType", i, SemanticType(descs[i]), "")

CallTitle(i) == Reads("Title", i, Title(descs[i]), "")

CallEditor(i) ==
    \E r \in {Editor(descs[i])} : Reads("Editor", i, r.ret, r.err)

CallIsLegacy(i) == Reads("IsLegacy", i, IsLegacy(descs[i]), "")

CallCanUseFilter(i) == Reads("CanUseFilter", i, CanUseFilter(descs[i]), "")

\* The document the caller holds after a descriptor's Doc was rewritten in place.
WriteThrough(doc, at, new) ==
    IF at = -1 THEN new
    ELSE IF at > 0
    THEN Set(doc, panelsPath, List([Get(doc, panelsPath).l EXCEPT ![at] = new]))
    ELSE doc

CallHasFilters(i) ==
    /\ phase = "described"
    /\ \E r \in {HasFilters(descs[i])} :
          /\ descs' = [descs EXCEPT ![i].Doc = r.doc]
          /\ input' = WriteThrough(input, descs[i].at, r.doc)
          /\ last' = [op |-> "HasFilters", i |-> i, ret |-> r.ret, err |-> r.err]
    /\ UNCHANGED <<phase, inflators>>

CallGetDashboardTitle ==
    /\ phase = "start"
    /\ \E r \in {GetDashboardTitle(input)} :
          /\ phase' = "answered"
          /\ last' = [op |-> "GetDashboardTitle", i |-> 0,
                      ret |-> r.title, err |-> r.err]
    /\ UNCHANGED <<input, descs, inflators>>

CallGetByReferencePanelIDs ==
    /\ phase = "start"
    /\ \E r \in {GetByReferencePanelIDs(input)} :
          /\ phase' = IF r.panic THEN "panicked" ELSE "answered"
          /\ last' = [op |-> "GetByReferencePanelIDs", i |-> 0,
                      ret |-> r.ids, err |-> r.err]
    /\ UNCHANGED <<input, descs, inflators>>

Next ==
    \/ CallDescribeVisualizationSavedObject
    \/ CallDescribeByValueDashboardPanels
    \/ CallGetDashboardTitle
    \/ CallGetByReferencePanelIDs
    \/ \E i \in 1..Len(descs) : CallType(i)
    \/ \E i \in 1..Len(descs) : CallTSVBType(i)
    \/ \E i \in 1..Len(descs) : CallSemanticType(i)
    \/ \E i \in 1..Len(descs) : CallTitle(i)
    \/ \E i \in 1..Len(descs) : CallEditor(i)
    \/ \E i \in 1..Len(descs) : CallIsLegacy(i)
    \/ \E i \in 1..Len(descs) : CallCanUseFilter(i)
    \/ \E i \in 1..Len(descs) : CallHasFilters(i)

Spec == Init /\ [][Next]_vars

(***************************************************************************)
(* Two runs of deserializeSubPaths on one document instance at the same    *)
(* time, as two goroutines that call HasFilters on descriptors of one      *)
(* document make them.  A run takes one step to read a field (doc.Get and  *)
(* IsStr), one to parse the string it read (objx.FromJSON) and one to      *)
(* write the parsed value back (doc.Set).  Nothing orders the map accesses *)
(* of the two runs, which is a data race in Go: a write that meets a map   *)
(* access of the other run may proceed as if the steps were atomic, or the *)
(* runtime may stop the program ("fatal error: concurrent map writes").    *)
(* inflators.orig keeps the document as it was before the runs, for the    *)
(* properties; calls[p].wrote keeps the fields run p has written.          *)
(***************************************************************************)
Runs == {1, 2}

NewCall ==
    [pc |-> "read", i |-> 1, field |-> Absent, parsed |-> [ok |-> FALSE, v |-> Null],
     err |-> "", wrote |-> {}]

\* The documents the two runs share.
RaceDocs == {d \in InflateDocs : IsStr(Get(d, <<"type">>))}

InitRace ==
    /\ input \in RaceDocs
    /\ phase = "start"
    /\ descs = <<>>
    /\ last = NoCall
    /\ inflators = [orig |-> input, fatal |-> FALSE, calls |-> <<NewCall, NewCall>>]

\* The run goes on to the next field, or has ranged over all of them.
NextField(c) ==
    [c EXCEPT !.i = c.i + 1,
              !.pc = IF c.i + 1 > Len(jsonPaths) THEN "done" ELSE "read"]

Running(p) == ~inflators.fatal /\ inflators.calls[p].pc # "done"

\* field := doc.Get(fieldName); if !field.IsStr() { continue }
ReadField(p) ==
    /\ Running(p) /\ inflators.calls[p].pc = "read"
    /\ \E c \in {inflators.calls[p]}, field \in {Get(input, jsonPaths[inflators.calls[p].i])} :
          inflators' =
              [inflators EXCEPT !.calls[p] =
                  IF IsStr(field) THEN [c EXCEPT !.pc = "parse", !.field = field]
                  ELSE NextField(c)]
    /\ UNCHANGED <<input, phase, descs, last>>

\* parsed, err := objx.FromJSON(field.Str()); if err != nil { return ... }
ParseField(p) ==
    /\ Running(p) /\ inflators.calls[p].pc = "parse"
    /\ \E c \in {inflators.calls[p]}, parsed \in {FromJSON(StrOf(inflators.calls[p].field))} :
          inflators' =
              [inflators EXCEPT !.calls[p] =
                  IF parsed.ok THEN [c EXCEPT !.pc = "write", !.parsed = parsed]
                  ELSE [c EXCEPT !.pc = "done",
                                 !.err = "failed to decode embedded json in \""
                                            \o Dotted(jsonPaths[c.i]) \o "\": "
                                            \o jsonError]]
    /\ UNCHANGED <<input, phase, descs, last>>

\* doc.Set(fieldName, parsed)
WriteField(p) ==
    /\ Running(p) /\ inflators.calls[p].pc = "write"
    /\ \E c \in {inflators.calls[p]} :
          /\ input' = Set(input, jsonPaths[c.i], c.parsed.v)
          /\ inflators' =
                [inflators EXCEPT !.calls[p] =
                    NextField([c EXCEPT !.wrote = c.wrote \cup {c.i}])]
    /\ UNCHANGED <<phase, descs, last>>

\* doc.Set while the other run is about to read or write the map: the runtime
\* finds the two accesses at once and stops the program.
FatalWrite(p) ==
    /\ Running(p) /\ inflators.calls[p].pc = "write"
    /\ \E q \in Runs \ {p} : Running(q) /\ inflators.calls[q].pc \in {"read", "write"}
    /\ inflators' = [inflators EXCEPT !.fatal = TRUE]
    /\ UNCHANGED <<input, phase, descs, last>>

NextRace ==
    \/ \E p \in Runs : ReadField(p)
    \/ \E p \in Runs : ParseField(p)
    \/ \E p \in Runs : WriteField(p)
    \/ \E p \in Runs : FatalWrite(p)

SpecRace == InitRace /\ [][NextRace]_vars

(***************************************************************************)
(* Properties.  Called(op) says the last call was the method op; Subject   *)
(* is the descriptor it was called on.                                     *)
(***************************************************************************)
Called(op) == last.op = op

Subject == descs[last.i]

IsVisualization(v) == v.SavedObjectType = "visualization"

C2_LegacyTSVB ==
    (Called("IsLegacy") /\ IsVisualization(Subject) /\ Type(Subject) = "metrics")
        => (last.ret = (TSVBType(Subject) # "markdown"))

C2_Witness ==
    /\ Called("IsLegacy") /\ IsVisualization(Subject)
    /\ Type(Subject) = "metrics" /\ TSVBType(Subject) = "markdown"
    /\ last.ret = FALSE

\* C3: for a saved object that is no visualization, Type(), Title() and TSVBType()
\* return "" and IsLegacy() returns false, whatever the document holds.
C3_OnlyVisualizations ==
    /\ (Called("Type") \/ Called("Title") \/ Called("TSVBType"))
           => (~IsVisualization(Subject) => last.ret = "")
    /\ Called("IsLegacy") => (~IsVisualization(Subject) => last.ret = FALSE)

C3_Witness ==
    /\ Called("Title") /\ Subject.SavedObjectType = "lens"
    /\ IsStr(Get(Subject.Doc, <<"attributes", "title">>))
    /\ last.ret = ""

\* C4: Editor() names the editor by the saved-object type and, for a visualization,
\* by Type(); it returns an error exactly when the saved-object type is none of
\* lens, map, search and visualization.
C4_EditorName(v) ==
    CASE v.SavedObjectType = "lens" -> "Lens"
      [] v.SavedObjectType = "map" -> "Maps"
      [] v.SavedObjectType = "search" -> "Discover"
      [] v.SavedObjectType = "visualization" /\ Type(v) = "metrics" -> "TSVB"
      [] v.SavedObjectType = "visualization" /\ Type(v) = "vega" -> "Vega"
      [] v.SavedObjectType = "visualization" /\ Type(v) = "timelion" -> "Timelion"
      [] v.SavedObjectType = "visualization" -> "Aggs-based"
      [] OTHER -> ""

C4_Editor ==
    Called("Editor") =>
        /\ (last.err # "") = (Subject.SavedObjectType
                                \notin {"lens", "map", "search", "visualization"})
        /\ last.err = "" => last.ret = C4_EditorName(Subject)

C4_Witness ==
    /\ Called("Editor") /\ Subject.SavedObjectType = "dashboard"
    /\ last.err # ""

\* C5: CanUseFilter() is false exactly for a saved search and for a visualization
\* whose Type() is "markdown"; it is true for a TSVB markdown.
C5_CanUseFilter ==
    Called("CanUseFilter") =>
        (last.ret = ~(\/ Subject.SavedObjectType = "search"
                      \/ IsVisualization(Subject) /\ Type(Subject) = "markdown"))

C5_Witness ==
    /\ Called("CanUseFilter") /\ IsVisualization(Subject)
    /\ Type(Subject) = "metrics" /\ TSVBType(Subject) = "markdown"
    /\ last.ret = TRUE

\* C6 (as amended): after a successful inflation HasFilters() is true exactly
\* when one of the four query paths holds a non-empty string or one of the four
\* filter paths holds a non-empty list whose elements are all JSON objects; the
\* paths form a union.
PathsOf(paths) == {paths[i] : i \in 1..Len(paths)}

HoldsQuery(doc) ==
    \E p \in PathsOf(queryPaths) : Get(doc, p).k = "str" /\ Get(doc, p).s # ""

HoldsObjectList(doc) ==
    \E p \in PathsOf(filterPaths) :
        /\ Get(doc, p).k = "list" /\ Len(Get(doc, p).l) > 0
        /\ \A i \in 1..Len(Get(doc, p).l) : Get(doc, p).l[i].k = "obj"

HoldsList(doc) ==
    \E p \in PathsOf(filterPaths) : Get(doc, p).k = "list" /\ Len(Get(doc, p).l) > 0

C6_FiltersUnion ==
    (Called("HasFilters") /\ last.err = "")
        => (last.ret = (HoldsQuery(Subject.Doc) \/ HoldsObjectList(Subject.Doc)))

\* An empty query at the first query path and an empty list at the first filter
\* path, and the match at another filter path.
C6_Witness ==
    /\ Called("HasFilters") /\ last.err = "" /\ last.ret = TRUE
    /\ Get(Subject.Doc, queryPaths[1]) = Str("")
    /\ Get(Subject.Doc, filterPaths[1]) = List(<<>>)
    /\ ~HoldsQuery(Subject.Doc)

\* C6 as stated: any non-empty list at a filter path counts.
C6_AnyList ==
    (Called("HasFilters") /\ last.err = "")
        => (last.ret = (HoldsQuery(Subject.Doc) \/ HoldsList(Subject.Doc)))

\* The panel list a dashboard was supplied with, parsed if it is text.
SuppliedPanels ==
    LET panelsValue == Get(input, panelsPath)
    IN IF IsStr(panelsValue) THEN Unmarshal(StrOf(panelsValue)).v ELSE panelsValue

IsPanelList(v) == v.k = "list" /\ \A i \in 1..Len(v.l) : v.l[i].k = "obj"

\* The panel holds a value (not null) at embeddableConfig.<key>.
Embeds(panel, key) ==
    /\ "embeddableConfig" \in DOMAIN panel.f
    /\ panel.f.embeddableConfig.k = "obj"
    /\ key \in DOMAIN panel.f.embeddableConfig.f
    /\ panel.f.embeddableConfig.f[key] # Null

TypeIs(panel, types) ==
    /\ "type" \in DOMAIN panel.f
    /\ panel.f.type.k = "str"
    /\ panel.f.type.s \in types

ByValuePanel(panel) ==
    \/ TypeIs(panel, {"visualization"}) /\ Embeds(panel, "savedVis")
    \/ TypeIs(panel, {"lens", "map"}) /\ Embeds(panel, "attributes")

DescribedDocs == [i \in 1..Len(descs) |-> descs[i].Doc]

\* C7: for a dashboard whose panel list holds by-value and other panels in any
\* order, DescribeByValueDashboardPanels returns one descriptor per by-value
\* panel, in the order of the list, whether the list came as text or parsed.
C7_OnePerPanelInOrder ==
    (Called("DescribeByValueDashboardPanels") /\ IsPanelList(SuppliedPanels))
        => /\ last.err = ""
           /\ DescribedDocs = SelectSeq(SuppliedPanels.l, ByValuePanel)
           /\ last.ret = Len(SelectSeq(SuppliedPanels.l, ByValuePanel))

\* Text form: two different by-value panels around a by-reference panel.
C7_Witness ==
    /\ Called("DescribeByValueDashboardPanels") /\ last.err = ""
    /\ IsStr(Get(input, panelsPath))
    /\ IsPanelList(SuppliedPanels) /\ Len(SuppliedPanels.l) = 3
    /\ "type" \notin DOMAIN SuppliedPanels.l[2].f
    /\ Len(descs) = 2
    /\ descs[1].Doc = SuppliedPanels.l[1] /\ descs[2].Doc = SuppliedPanels.l[3]
    /\ descs[1].Doc # descs[2].Doc

\* C8: a panel is included exactly when it is a visualization that has
\* embeddableConfig.savedVis or a lens or map that has embeddableConfig.attributes;
\* every other panel is skipped and causes no error.
C8_Included ==
    (Called("DescribeByValueDashboardPanels") /\ IsPanelList(SuppliedPanels))
        => /\ last.err = ""
           /\ \A j \in 1..Len(SuppliedPanels.l) :
                 (\E i \in 1..Len(descs) : descs[i].Doc = SuppliedPanels.l[j])
                     <=> ByValuePanel(SuppliedPanels.l[j])

\* A map panel without embeddableConfig skipped beside a panel that is described.
C8_Witness ==
    /\ Called("DescribeByValueDashboardPanels") /\ last.err = ""
    /\ IsPanelList(SuppliedPanels) /\ Len(SuppliedPanels.l) = 2
    /\ \E j \in 1..2 : SuppliedPanels.l[j] = Obj([type |-> Str("map")])
    /\ Len(descs) = 1

\* The known fields of doc that hold a string which is not valid JSON.
Broken(doc) ==
    {i \in 1..Len(jsonPaths) :
        IsStr(Get(doc, jsonPaths[i])) /\ ~Unmarshal(StrOf(Get(doc, jsonPaths[i]))).ok}

\* Every other known field that holds a string holds the text of an object.
OthersDecode(doc) ==
    \A i \in (1..Len(jsonPaths)) \ Broken(doc) :
        IsStr(Get(doc, jsonPaths[i])) => FromJSON(StrOf(Get(doc, jsonPaths[i]))).ok

DecodeError(i) ==
    "failed to decode embedded json in \"" \o Dotted(jsonPaths[i]) \o "\": " \o jsonError

FailsAllOrNothing(doc) == Broken(doc) # {} /\ OthersDecode(doc)

\* C9 as stated: when a known field holds a string that is not valid JSON,
\* inflation returns an error naming that field and leaves the document with none
\* of its fields replaced, also when an earlier field held valid JSON.
C9_AllOrNothing ==
    [][ /\ (last'.op = "DescribeVisualizationSavedObject" /\ FailsAllOrNothing(input))
            => /\ last'.err \in {"failed to deserialize embedded JSON objects: "
                                    \o DecodeError(i) : i \in Broken(input)}
               /\ input' = input
        /\ \A i \in 1..Len(descs) :
              (last'.op = "HasFilters" /\ last'.i = i /\ FailsAllOrNothing(descs[i].Doc))
                  => /\ last'.err \in {DecodeError(j) : j \in Broken(descs[i].Doc)}
                     /\ descs'[i].Doc = descs[i].Doc ]_vars

\* The part of C9 that holds: the error names the broken field.
C9_ErrorNamesField ==
    [][ (last'.op = "DescribeVisualizationSavedObject" /\ FailsAllOrNothing(input))
            => last'.err \in {"failed to deserialize embedded JSON objects: "
                                 \o DecodeError(i) : i \in Broken(input)} ]_vars

\* Descriptor i holds a document on which inflation has succeeded: it came from
\* DescribeVisualizationSavedObject, or HasFilters has just returned for it.
Inflated(i) ==
    \/ descs[i].Link = "by_reference"
    \/ last.op = "HasFilters" /\ last.i = i /\ last.err = ""

Structured(doc) == {p \in PathsOf(jsonPaths) : ~IsStr(Get(doc, p))}

\* C10: inflation is idempotent: on a document on which inflation has succeeded a
\* second run succeeds and changes nothing; and a run that succeeds leaves every
\* known field that was not a string as it was.
C10_Idempotent ==
    [][ /\ \A i \in 1..Len(descs) :
              (last'.op = "HasFilters" /\ last'.i = i)
                  => /\ Inflated(i) => (last'.err = "" /\ descs'[i].Doc = descs[i].Doc)
                     /\ last'.err = ""
                          => \A p \in Structured(descs[i].Doc) :
                                Get(descs'[i].Doc, p) = Get(descs[i].Doc, p)
        /\ (last'.op = "DescribeVisualizationSavedObject" /\ last'.err = "")
              => \A p \in Structured(input) : Get(input', p) = Get(input, p) ]_vars

\* HasFilters has run on a saved object that DescribeVisualizationSavedObject
\* inflated: its uiStateJSON is UiState, which the documents hold as text only.
C10_Witness ==
    /\ Called("HasFilters") /\ last.err = ""
    /\ Subject.Link = "by_reference"
    /\ Get(Subject.Doc, jsonPaths[1]) = UiState
    /\ Get(Subject.Doc, jsonPaths[3]).k = "obj"

\* The candidate paths of paths, in order, that hold a string in doc.
StringsAt(doc, paths) == {i \in 1..Len(paths) : Get(doc, paths[i]).k = "str"}

\* The string at the first candidate path that holds one, "" when none does.
FirstString(doc, paths) ==
    IF StringsAt(doc, paths) = {} THEN ""
    ELSE Get(doc, paths[CHOOSE i \in StringsAt(doc, paths) :
                            \A j \in StringsAt(doc, paths) : i <= j]).s

TypeOrder ==
    << <<"attributes", "type">>,
       <<"attributes", "visState", "type">>,
       <<"embeddableConfig", "savedVis", "type">> >>

TitleOrder ==
    << <<"attributes", "title">>,
       <<"title">>,
       <<"embeddableConfig", "savedVis", "title">> >>

TSVBTypeOrder ==
    << <<"attributes", "visState", "params", "type">>,
       <<"embeddableConfig", "savedVis", "params", "type">> >>

\* The candidate paths the last call resolved, <<>> when it resolved none.
ResolvedOrder ==
    IF Called("Type") /\ IsVisualization(Subject) THEN TypeOrder
    ELSE IF Called("Title") /\ IsVisualization(Subject) THEN TitleOrder
    ELSE IF Called("TSVBType") /\ IsVisualization(Subject) /\ Type(Subject) = "metrics"
    THEN TSVBTypeOrder
    ELSE <<>>

\* C11 (as amended): Type(), Title() and TSVBType() return the string at the first
\* candidate path, in the stated order, that holds a string; a path that is absent
\* or holds a value that is no string is skipped; "" is returned when no candidate
\* holds a string or when the first string held is itself empty.
C11_FirstString ==
    ResolvedOrder # <<>> => last.ret = FirstString(Subject.Doc, ResolvedOrder)

\* A number at attributes.type is skipped and the type is found at the last path.
C11_Witness ==
    /\ Called("Type") /\ IsVisualization(Subject)
    /\ Get(Subject.Doc, TypeOrder[1]) = Num
    /\ Get(Subject.Doc, TypeOrder[2]) = Null
    /\ Get(Subject.Doc, TypeOrder[3]).k = "str"
    /\ last.ret = Get(Subject.Doc, TypeOrder[3]).s
    /\ last.ret # ""

\* C11 as stated: moreover "" is returned only when no candidate holds a string.
C11_EmptyOnlyWhenNone ==
    ResolvedOrder # <<>>
        => /\ last.ret = FirstString(Subject.Doc, ResolvedOrder)
           /\ last.ret = "" => StringsAt(Subject.Doc, ResolvedOrder) = {}

\* The known fields of doc that hold a string objx.FromJSON does not decode.  A run
\* of the inflation leaves the field it failed on as it was and no string before
\* it, so the set is empty after a run exactly when the run succeeded.
Undecoded(doc) ==
    {i \in 1..Len(jsonPaths) :
        IsStr(Get(doc, jsonPaths[i])) /\ ~FromJSON(StrOf(Get(doc, jsonPaths[i]))).ok}

HasTypeString(doc) == "type" \in DOMAIN doc.f /\ doc.f.type.k = "str"

MissingType == "'type' in visualization is not present or is not a string"

\* C12: when the inflation succeeds, DescribeVisualizationSavedObject returns an
\* error if the top-level type is absent or no string, and otherwise a descriptor
\* with that very string as SavedObjectType and with Link "by_reference".
C12_TypeVerbatim ==
    (Called("DescribeVisualizationSavedObject") /\ Undecoded(input) = {})
        => IF HasTypeString(input)
           THEN /\ last.err = ""
                /\ last.ret.SavedObjectType = input.f.type.s
                /\ last.ret.Link = "by_reference"
                /\ descs = <<last.ret>>
           ELSE /\ last.err = MissingType
                /\ descs = <<>>

\* A type outside visualization, lens, map and search is kept as it is.
C12_Witness ==
    /\ Called("DescribeVisualizationSavedObject") /\ last.err = ""
    /\ HasTypeString(input) /\ input.f.type.s = "dashboard"
    /\ last.ret.SavedObjectType = "dashboard"
    /\ last.ret.Link = "by_reference"

\* C13: DescribeVisualizationSavedObject inflates first: when a known field holds
\* a string that does not decode it returns the decode error, naming the field,
\* and an empty descriptor, also when the top-level type is missing as well.
C13_DecodeErrorFirst ==
    (Called("DescribeVisualizationSavedObject") /\ Undecoded(input) # {})
        => /\ last.err \in {"failed to deserialize embedded JSON objects: "
                                \o DecodeError(i) : i \in Undecoded(input)}
           /\ last.ret.Doc = Null
           /\ last.ret.SavedObjectType = ""
           /\ last.ret.Link = ""
           /\ descs = <<>>

\* A broken visState in a document without a type: the decode error is reported.
C13_Witness ==
    /\ Called("DescribeVisualizationSavedObject")
    /\ ~HasTypeString(input)
    /\ Get(input, jsonPaths[2]) = Str("{")
    /\ last.err = "failed to deserialize embedded JSON objects: " \o DecodeError(2)

\* What the dashboard passed in holds at references, Null when it holds nothing.
References == Get(input, <<"references">>)

\* An object with strings at id and name and, if it has a type, at type.
IsTriple(e) ==
    /\ e.k = "obj"
    /\ "id" \in DOMAIN e.f /\ e.f.id.k = "str"
    /\ "name" \in DOMAIN e.f /\ e.f.name.k = "str"
    /\ "type" \in DOMAIN e.f => e.f.type.k = "str"

\* The names of the model in which "panel_" occurs.
PanelNames == {"panel_0", "panel_1", "x:panel_1", "panel_0:x"}

NamesPanel(e) == e.f.name.s \in PanelNames

IdsOf(entries) == [i \in 1..Len(entries) |-> entries[i].f.id.s]

\* C14: GetByReferencePanelIDs returns the ids of exactly the references whose
\* name contains "panel_", in the order of the list and with duplicates kept; for
\* an empty list it returns no ids.
C14_PanelIds ==
    (Called("GetByReferencePanelIDs") /\ References.k = "list"
        /\ \A i \in 1..Len(References.l) : IsTriple(References.l[i]))
        => /\ last.err = ""
           /\ last.ret = IdsOf(SelectSeq(References.l, NamesPanel))

\* The same id under two panel names around a reference that is no panel.
C14_Witness ==
    /\ Called("GetByReferencePanelIDs") /\ last.err = ""
    /\ References = List(<<Ref("a", "panel_0"), Ref("c", "tag_0"), Ref("a", "panel_1")>>)
    /\ last.ret = <<"a", "a">>

\* An element that is no map, or a map with something other than a string (or
\* null) at id, type or name.
NotATriple(e) ==
    /\ e # Null
    /\ \/ e.k # "obj"
       \/ \E key \in {"id", "type", "name"} :
             key \in DOMAIN e.f /\ e.f[key].k \notin {"str", "null"}

\* C15: GetByReferencePanelIDs returns an error and no ids when references is
\* absent, when it is no list and when some element does not decode into a triple
\* of strings, also after elements that are panel references.
C15_ReferencesError ==
    (Called("GetByReferencePanelIDs") /\ input.k = "obj"
        /\ \/ References.k # "list"
           \/ \E i \in 1..Len(References.l) : NotATriple(References.l[i]))
        => /\ last.err # ""
           /\ last.ret = <<>>

\* A number after a panel reference.
C15_Witness ==
    /\ Called("GetByReferencePanelIDs")
    /\ References = List(<<Ref("a", "panel_0"), Num>>)
    /\ last.err # "" /\ last.ret = <<>>

Accessors ==
    {"Type", "TSVBType", "SemanticType", "Title", "Editor", "IsLegacy",
     "CanUseFilter", "HasFilters"}

\* C16 as stated: once a descriptor has been returned, no call of an accessor
\* changes its Doc.
C16_DocFixed ==
    [][ last'.op \in Accessors
            => \A i \in 1..Len(descs) : descs'[i].Doc = descs[i].Doc ]_vars

\* The part of C16 that holds: the accessors other than HasFilters leave every Doc
\* as it is, and so does HasFilters on a descriptor that
\* DescribeVisualizationSavedObject returned.
C16_DocFixedButHasFilters ==
    [][ /\ last'.op \in Accessors \ {"HasFilters"} => descs' = descs
        /\ \A i \in 1..Len(descs) :
              (last'.op = "HasFilters" /\ descs[i].Link = "by_reference")
                  => descs'[i].Doc = descs[i].Doc ]_vars

\* C17: every descriptor DescribeByValueDashboardPanels returns has Link "by_value"
\* and the type string of its panel as SavedObjectType, and the descriptor
\* DescribeVisualizationSavedObject returns has Link "by_reference", whatever the
\* panel or document holds.
C17_LinkProvenance ==
    /\ Called("DescribeByValueDashboardPanels")
          => \A i \in 1..Len(descs) :
                /\ descs[i].Link = "by_value"
                /\ HasTypeString(descs[i].Doc)
                /\ descs[i].SavedObjectType = descs[i].Doc.f.type.s
    /\ (Called("DescribeVisualizationSavedObject") /\ last.err = "")
          => (last.ret.Link = "by_reference" /\ descs = <<last.ret>>)

\* A panel that holds attributes, as a saved object does, is by value all the same.
C17_Witness ==
    /\ Called("DescribeByValueDashboardPanels") /\ last.err = ""
    /\ \E i \in 1..Len(descs) :
          /\ "attributes" \in DOMAIN descs[i].Doc.f
          /\ descs[i].Link = "by_value"
          /\ descs[i].SavedObjectType = "visualization"

ByValueNonTSVB(v) ==
    v.Link = "by_value" /\ IsVisualization(v) /\ Type(v) # "metrics"

C19_SemanticType ==
    /\ Called("SemanticType")
          => last.ret = (IF Type(Subject) = "metrics"
                         THEN TSVBType(Subject) ELSE Type(Subject))
    /\ (Called("TSVBType") /\ Type(Subject) # "metrics") => last.ret = ""

\* A visualization that is no TSVB and holds a string at params.type.
C19_Witness ==
    /\ Called("TSVBType") /\ IsVisualization(Subject)
    /\ Type(Subject) \notin {"metrics", ""}
    /\ StringsAt(Subject.Doc, TSVBTypeOrder) # {}
    /\ last.ret = ""


Answers(v) ==
    [Type |-> Type(v), TSVBType |-> TSVBType(v), SemanticType |-> SemanticType(v),
     Title |-> Title(v), Editor |-> Editor(v), IsLegacy |-> IsLegacy(v),
     CanUseFilter |-> CanUseFilter(v)]

\* C20 as stated: a call of an accessor, HasFilters included, changes nothing that
\* Type(), Editor(), IsLegacy() or another accessor reports afterwards.
C20_AccessorsPure ==
    [][ last'.op \in Accessors
            => \A i \in 1..Len(descs) : Answers(descs'[i]) = Answers(descs[i]) ]_vars

\* The part of C20 that holds: every accessor other than HasFilters leaves the
\* answers of all accessors as they were.
C20_PureButHasFilters ==
    [][ last'.op \in Accessors \ {"HasFilters"}
            => \A i \in 1..Len(descs) : Answers(descs'[i]) = Answers(descs[i]) ]_vars


\* The object a JSON text holds, or Absent when the text holds none.
ObjectIn(text) ==
    IF Unmarshal(text).ok /\ Unmarshal(text).v.k = "obj"
    THEN Unmarshal(text).v ELSE Absent

\* doc is a visualization without a string attributes.type whose
\* attributes.visState is the text of an object with a string type and a string
\* params.type.
HoldsVisStateText(doc) ==
    /\ Get(doc, <<"type">>) = Str("visualization")
    /\ ~IsStr(Get(doc, <<"attributes", "type">>))
    /\ IsStr(Get(doc, <<"attributes", "visState">>))
    /\ IsStr(Get(ObjectIn(StrOf(Get(doc, <<"attributes", "visState">>))), <<"type">>))
    /\ IsStr(Get(ObjectIn(StrOf(Get(doc, <<"attributes", "visState">>))),
                 <<"params", "type">>))

TextType(doc) ==
    StrOf(Get(ObjectIn(StrOf(Get(doc, <<"attributes", "visState">>))), <<"type">>))

TextSubType(doc) ==
    StrOf(Get(ObjectIn(StrOf(Get(doc, <<"attributes", "visState">>))),
              <<"params", "type">>))

\* C21: when DescribeVisualizationSavedObject succeeds on a visualization that has
\* no string attributes.type and whose attributes.visState is the JSON text of an
\* object with type T and params.type S, the descriptor's Type() is T, and its
\* TSVBType() is S when T is "metrics".
C21_InflatedVisible ==
    [][ ( /\ last'.op = "DescribeVisualizationSavedObject" /\ last'.err = ""
          /\ HoldsVisStateText(input) )
            => /\ Len(descs') = 1
               /\ Type(descs'[1]) = TextType(input)
               /\ TextType(input) = "metrics"
                     => TSVBType(descs'[1]) = TextSubType(input) ]_vars

\* The descriptor of a saved object whose visState, which the saved objects hold
\* as text only, has been inflated: the type and sub-type inside it are answered.
C21_Witness ==
    /\ Called("TSVBType") /\ Subject.Link = "by_reference"
    /\ ~IsStr(Get(Subject.Doc, <<"attributes", "type">>))
    /\ Get(Subject.Doc, <<"attributes", "visState">>) = TextVisState
    /\ Type(Subject) = "metrics"
    /\ last.ret = "timeseries"


\* The text parses as a JSON array of objects.
ParsesAsPanelList(text) == Unmarshal(text).ok /\ IsPanelList(Unmarshal(text).v)

\* The text parses as JSON null or as a JSON array of objects and nulls.
ParsesAsNullableList(text) ==
    /\ Unmarshal(text).ok
    /\ \/ Unmarshal(text).v = Null
       \/ /\ Unmarshal(text).v.k = "list"
          /\ \A i \in 1..Len(Unmarshal(text).v.l) :
                Unmarshal(text).v.l[i].k \in {"obj", "null"}

\* The dashboard is no map, or its attributes.panelsJSON is absent or neither a
\* string nor a list of objects, or is a string for which Parses is false.
WrongShape(dashboard, Parses(_)) ==
    \/ dashboard.k # "obj"
    \/ /\ dashboard.k = "obj"
       /\ IF IsStr(Get(dashboard, panelsPath))
          THEN ~Parses(StrOf(Get(dashboard, panelsPath)))
          ELSE ~IsPanelList(Get(dashboard, panelsPath))

\* C22 as stated: DescribeByValueDashboardPanels returns an error, and no
\* descriptors, exactly when the dashboard is not a map, when
\* attributes.panelsJSON is absent or neither a string nor a list of panel
\* objects, or when it is a string that does not parse as a JSON array of
\* objects; otherwise it returns no error.
C22_ErrorsExactly ==
    Called("DescribeByValueDashboardPanels")
        => /\ last.err # "" <=> WrongShape(input, ParsesAsPanelList)
           /\ last.err # "" => descs = <<>>

\* What holds of the code: the same with a panelsJSON string counting as parsed
\* also when it is the text of null or of an array that holds nulls.
C22_ErrorsButNull ==
    Called("DescribeByValueDashboardPanels")
        => /\ last.err # "" <=> WrongShape(input, ParsesAsNullableList)
           /\ last.err # "" => descs = <<>>


\* What one run of deserializeSubPaths alone makes of the document the two runs
\* started from.
OneRunAlone == deserializeSubPaths(inflators.orig)

\* Both runs have returned and the runtime has not stopped the program.
RaceEnded ==
    /\ ~inflators.fatal
    /\ \A p \in Runs : inflators.calls[p].pc = "done"

\* The fields both runs found as strings, parsed and wrote back.
WrittenByBoth == inflators.calls[1].wrote \cap inflators.calls[2].wrote

\* C23 (as amended): two inflations of one document instance race on its maps,
\* and the runtime may stop the program at a write that meets a map access of
\* the other run; but when both run to their end, however their per-field steps
\* are interleaved, the document is the one a single run leaves and both return
\* the error a single run returns: no field is decoded twice.
C23_EndsAsOneRun ==
    /\ RaceEnded
          => /\ input = OneRunAlone.doc
             /\ \A p \in Runs : inflators.calls[p].err = OneRunAlone.err
    /\ \A p \in Runs :
          inflators.calls[p].pc = "write"
              => inflators.calls[p].parsed
                     = FromJSON(StrOf(Get(inflators.orig, jsonPaths[inflators.calls[p].i])))

\* Both runs have read, parsed and written the same two fields, and the document
\* is as one run leaves it.
C23_Witness ==
    /\ RaceEnded
    /\ Cardinality(WrittenByBoth) >= 2
    /\ input = OneRunAlone.doc
    /\ input # inflators.orig

\* C23 as stated, for the interleaving it describes: when both runs have read the
\* same field as a string and each has parsed it and written it back, the
\* document at the end has a known field that differs from the result of one run.
C23_RaceDiffers ==
    (RaceEnded /\ WrittenByBoth # {})
        => \E p \in PathsOf(jsonPaths) : Get(input, p) # Get(OneRunAlone.doc, p)


\* C24: a descriptor that IsLegacy() reports as legacy is one that CanUseFilter()
\* reports as able to use filters.
C24_LegacyCanUseFilter ==
    /\ (Called("IsLegacy") /\ last.ret = TRUE) => CanUseFilter(Subject) = TRUE
    /\ (Called("CanUseFilter") /\ last.ret = FALSE) => IsLegacy(Subject) = FALSE
    /\ \A i \in 1..Len(descs) : IsLegacy(descs[i]) => CanUseFilter(descs[i])

\* A TSVB visualization is reported as legacy, and can use filters.
C24_Witness ==
    /\ Called("IsLegacy") /\ last.ret = TRUE
    /\ IsVisualization(Subject) /\ Type(Subject) = "metrics"
    /\ CanUseFilter(Subject) = TRUE


\* The descriptor is of a visualization whose attributes.type is the empty string.
EmptyTypeFirst(v) ==
    IsVisualization(v) /\ Get(v.Doc, <<"attributes", "type">>) = Str("")

\* The type paths after attributes.type that hold a non-empty string.
LaterTypes(v) ==
    {i \in StringsAt(v.Doc, TypeOrder) : i > 1 /\ Get(v.Doc, TypeOrder[i]) # Str("")}

\* C25: when attributes.type of a visualization is the empty string, Type()
\* returns the empty string whatever attributes.visState.type and
\* embeddableConfig.savedVis.type hold, Editor() returns "Aggs-based" and
\* IsLegacy() returns true.
C25_EmptyShadows ==
    /\ (Called("Type") /\ EmptyTypeFirst(Subject)) => last.ret = ""
    /\ (Called("Editor") /\ EmptyTypeFirst(Subject))
          => (last.ret = "Aggs-based" /\ last.err = "")
    /\ (Called("IsLegacy") /\ EmptyTypeFirst(Subject)) => last.ret = TRUE

\* Editor() has answered for a visualization with an empty attributes.type and
\* the type "metrics" at a later path.
C25_Witness ==
    /\ Called("Editor") /\ EmptyTypeFirst(Subject)
    /\ \E i \in LaterTypes(Subject) : Get(Subject.Doc, TypeOrder[i]) = Str("metrics")
    /\ last.ret = "Aggs-based"


\* C26 as stated: every entry point ends, for every input, a dashboard that is no
\* map included, by returning a result or an error; none aborts.
C26_NoPanic == phase # "panicked"

\* What holds of the code: the only entry point that aborts is
\* GetByReferencePanelIDs, and only for a dashboard that is no map; every other
\* call ends by returning, a dashboard that is no map being answered by an error.
C26_OnlyReferencesPanic ==
    /\ phase = "panicked" <=> (Called("GetByReferencePanelIDs") /\ input.k # "obj")
    /\ Called("GetDashboardTitle")
          => /\ last.err # "" <=> input.k # "obj"
             /\ last.err # "" => last.ret = ""
    /\ (Called("DescribeByValueDashboardPanels") /\ input.k # "obj")
          => (last.err # "" /\ descs = <<>>)

====
